---------------------------- MODULE Spec2Model ----------------------------
(* Model of cc/weather/weather_data.py (class WeatherData).                *)
(*                                                                         *)
(* A Python dict is a TLA+ function whose domain is its set of keys, so a  *)
(* record without a `time` key is a function whose domain lacks "time".    *)
(* A serialized payload handed out by the datastore is a sequence of       *)
(* <<key, value>> members; json.loads builds the dict from it.             *)
(* The collaborators (datastore, bigquery) are not part of the class: what *)
(* they return or raise is an input of each call.                          *)
EXTENDS Integers, Sequences, FiniteSets, TLC

VARIABLES pc, op, args, rows, returned, saved, raised, trace

vars == <<pc, op, args, rows, returned, saved, raised, trace>>

(* ------------------------------ bounds --------------------------------- *)
MaxLen  == 4   \* most payloads one range fetch returns
MaxTime == 2   \* timestamps are 1..MaxTime
MaxVal  == 2   \* metric values are 1..MaxVal

(* ------------------------------ values --------------------------------- *)
\* Python's None, as it is used for previous_ts, for r.get('time') of a
\* record without the key, and for absent arguments.
None == 0 - 1

EmptyDict == [k \in {} |-> 0]

\* Serialized records the store may hold: with or without a "time" member.
Payloads ==
    { << <<"time", k>>, <<"t", v>> >> : k \in 1..MaxTime, v \in 1..MaxVal }
        \cup { << <<"t", v>> >> : v \in 1..MaxVal }

BoundedSeq(S, n) == UNION { [1..k -> S] : k \in 0..n }

(* ------------------------- the read path ------------------------------- *)
\* json.loads of an object: one key per member name, the last member of a
\* name giving its value.
JsonLoads(p) ==
    [ key \in { p[i][1] : i \in DOMAIN p } |->
        LET last == CHOOSE i \in DOMAIN p :
                        /\ p[i][1] = key
                        /\ \A j \in DOMAIN p : p[j][1] = key => j <= i
        IN  p[last][2] ]

\* for row in rows: row = json.loads(row); sorted_rows.append(row)
Decoded(rs) == [ i \in DOMAIN rs |-> JsonLoads(rs[i]) ]

HasTime(r) == "time" \in DOMAIN r

\* key=lambda r: r.get('time')
SortKey(r) == IF HasTime(r) THEN r["time"] ELSE None

\* As KeyCompareFaults, had None been ordered before every other key.
KeyCompareFaults_NoneOrdered(list) == FALSE

\* sorted() compares keys with <; every element of a list of two or more
\* takes part in a comparison, and None < x, x < None raise TypeError.
KeyCompareFaults(list) ==
    /\ Len(list) >= 2
    /\ \E i \in DOMAIN list : SortKey(list[i]) = None

\* As InsertDesc, with reverse=True forgotten: ascending key order.
InsertDesc_Ascending(list, r) ==
    LET n == Cardinality({ i \in DOMAIN list : SortKey(list[i]) <= SortKey(r) })
    IN  SubSeq(list, 1, n) \o <<r>> \o SubSeq(list, n + 1, Len(list))

\* Stable insertion of r into a list already in descending key order:
\* r goes after every element whose key is >= its own.
InsertDesc(list, r) ==
    LET n == Cardinality({ i \in DOMAIN list : SortKey(list[i]) >= SortKey(r) })
    IN  SubSeq(list, 1, n) \o <<r>> \o SubSeq(list, n + 1, Len(list))

RECURSIVE SortedDesc(_)
\* sorted(sorted_rows, key=..., reverse=True): stable, descending.
SortedDesc(list) ==
    IF list = <<>> THEN <<>>
    ELSE InsertDesc(SortedDesc(SubSeq(list, 1, Len(list) - 1)), list[Len(list)])

\* As ListRemove, deleting every element equal to x.
ListRemove_AllEqual(list, x) == SelectSeq(list, LAMBDA e : e # x)

\* list.remove(x): delete the first element equal to x.
ListRemove(list, x) ==
    LET k == CHOOSE i \in DOMAIN list :
                 /\ list[i] = x
                 /\ \A j \in DOMAIN list : list[j] = x => i <= j
    IN  SubSeq(list, 1, k - 1) \o SubSeq(list, k + 1, Len(list))

\* d['time'] == previous_ts
SameAsPrevious(d, previous_ts) == d["time"] = previous_ts

RECURSIVE DedupLoop(_, _, _)
\* for d in sorted_rows: ...  The list iterator holds a position i into the
\* list being mutated; it yields list[i] while i is inside the current list
\* and advances by one whatever the body did.
DedupLoop(list, i, previous_ts) ==
    IF i > Len(list) THEN [raised |-> "none", rows |-> list]
    ELSE LET d == list[i] IN
         IF ~HasTime(d) THEN [raised |-> "KeyError", rows |-> <<>>]
         ELSE IF SameAsPrevious(d, previous_ts)
              THEN DedupLoop(ListRemove(list, d), i + 1, previous_ts)
              ELSE DedupLoop(list, i + 1, d["time"])

\* As ComputedWeatherData, with previous_ts seeded from sorted_rows[0].
ComputedWeatherData_SeededFromFirst(rs) ==
    LET decoded == Decoded(rs) IN
    IF KeyCompareFaults(decoded) THEN [raised |-> "TypeError", rows |-> <<>>]
    ELSE IF decoded = <<>> THEN [raised |-> "IndexError", rows |-> <<>>]
    ELSE IF ~HasTime(decoded[1]) THEN [raised |-> "KeyError", rows |-> <<>>]
    ELSE DedupLoop(SortedDesc(decoded), 2, SortedDesc(decoded)[1]["time"])

\* get_computed_weather_data, from the fetched payloads to its outcome.
ComputedWeatherData(rs) ==
    LET decoded == Decoded(rs) IN
    IF KeyCompareFaults(decoded) THEN [raised |-> "TypeError", rows |-> <<>>]
    ELSE DedupLoop(SortedDesc(decoded), 1, None)

(* ------------------------- the write paths ----------------------------- *)
\* Inputs of the write operations.  A timestamp or a name is None or a value.
Timestamps == {None, 1}
Names == {None, 1}
Dicts == {EmptyDict} \cup { [k \in {"t"} |-> v] : v \in 1..MaxVal }
DeviceDicts ==
    {EmptyDict} \cup { [k \in {"t"} |-> v] : v \in 1..MaxVal }
        \cup { [k \in {"name"} |-> n] : n \in Names \ {None} }
        \cup { [k \in {"name", "t"} |-> IF k = "name" THEN n ELSE v] :
                 n \in Names \ {None}, v \in 1..MaxVal }

\* What a collaborator does when called: bigquery.save returns a truthy or
\* a falsy value or raises; a datastore write returns or raises.
BQBehaviours == {"true", "false", "raise"}
DSBehaviours == {"ok", "raise"}

\* The outcome of a piece of code: the value returned, the exception
\* leaving it ("none" when it returns), the collaborator calls it made.
Outcome(ret, exc, calls) == [ret |-> ret, raised |-> exc, trace |-> calls]

Call(api, outcome) == [api |-> api, outcome |-> outcome]

\* len(d) of a dict
DictLen(d) == Cardinality(DOMAIN d)

\* d.get(key)
DictGet(d, key) == IF key \in DOMAIN d THEN d[key] ELSE None

\* As ExceptReturnFalse, without the handler: the exception goes on.
ExceptReturnFalse_Reraises(r) == r

\* except Exception as e: logging.error(...); return False
ExceptReturnFalse(r) ==
    IF r.raised # "none" THEN Outcome(FALSE, "none", r.trace) ELSE r

\* data_type is None or device_name is None or data is None.  data_type is
\* the string literal of the caller and data the dict whose len() the caller
\* has taken, so of the three only device_name can be None.
SaveDSInvalidArgs(data_type, device_name, data) == device_name = None

\* __save_DS: the sharded datastore write, inside its own try.
SaveDS(data_type, device_name, data, ds) ==
    ExceptReturnFalse(
        IF SaveDSInvalidArgs(data_type, device_name, data)
        THEN Outcome(FALSE, "none", <<>>)
        ELSE IF ds = "raise"
             THEN Outcome(FALSE, "Exception",
                          <<Call("datastore.save_dict_to_entity", "raise")>>)
             ELSE Outcome(TRUE, "none",
                          <<Call("datastore.save_dict_to_entity", "ok")>>))

\* __save_device_to_DS: the unsharded datastore write, inside its own try.
SaveDeviceToDS(data_type, device_name, data, ds) ==
    ExceptReturnFalse(
        IF SaveDSInvalidArgs(data_type, device_name, data)
        THEN Outcome(FALSE, "none", <<>>)
        ELSE IF ds = "raise"
             THEN Outcome(FALSE, "Exception",
                          <<Call("datastore.save_with_key", "raise")>>)
             ELSE Outcome(TRUE, "none",
                          <<Call("datastore.save_with_key", "ok")>>))

\* As InvalidArgs, with `and` for `or`.
InvalidArgs_AllMissing(timestamp, name, data) ==
    timestamp = None /\ name = None /\ 0 = DictLen(data)

\* timestamp is None or name is None or 0 == len(data)
InvalidArgs(timestamp, name, data) ==
    timestamp = None \/ name = None \/ 0 = DictLen(data)

\* As BQSaveThen, with the result of the append ignored.
BQSaveThen_ResultIgnored(bq, rest) ==
    LET call == <<Call("bigquery.save", bq)>> IN
    IF bq = "raise" THEN Outcome(FALSE, "Exception", call)
    ELSE Outcome(rest.ret, rest.raised, call \o rest.trace)

\* if not bigquery.save(table, name, timestamp, data): return False
\* followed by what the operation does once the append has succeeded.
BQSaveThen(bq, rest) ==
    LET call == <<Call("bigquery.save", bq)>> IN
    IF bq = "raise" THEN Outcome(FALSE, "Exception", call)
    ELSE IF bq = "false" THEN Outcome(FALSE, "none", call)
    ELSE Outcome(rest.ret, rest.raised, call \o rest.trace)

\* The body of save_computed's try block.
SaveComputedBody(timestamp, name, data, bq, ds) ==
    IF InvalidArgs(timestamp, name, data) THEN Outcome(FALSE, "none", <<>>)
    ELSE BQSaveThen(bq, SaveDS("computed", name, data, ds))

\* save_computed
SaveComputedCall(timestamp, name, data, bq, ds) ==
    ExceptReturnFalse(SaveComputedBody(timestamp, name, data, bq, ds))

\* save_device
SaveDeviceCall(timestamp, device_dict, bq, ds) ==
    ExceptReturnFalse(
        LET name == DictGet(device_dict, "name") IN
        IF InvalidArgs(timestamp, name, device_dict)
        THEN Outcome(FALSE, "none", <<>>)
        ELSE BQSaveThen(bq, SaveDeviceToDS("device", name, device_dict, ds)))

\* save_raw_five_min and save_raw_aux: the append only, nothing cached.
SaveRawCall(timestamp, name, data, bq) ==
    ExceptReturnFalse(
        IF InvalidArgs(timestamp, name, data) THEN Outcome(FALSE, "none", <<>>)
        ELSE BQSaveThen(bq, Outcome(TRUE, "none", <<>>)))

(* ------------------------------ actions -------------------------------- *)
Init ==
    /\ pc = "idle"
    /\ op = "none"
    /\ args = EmptyDict
    /\ rows = <<>>
    /\ returned = <<>>
    /\ saved = FALSE
    /\ raised = "none"
    /\ trace = <<>>

\* One call of get_computed_weather_data; the store returns fetched.
GetComputedWeatherData ==
    /\ pc = "idle"
    /\ \E fetched \in BoundedSeq(Payloads, MaxLen) :
         LET out == ComputedWeatherData(fetched) IN
         /\ rows' = fetched
         /\ returned' = out.rows
         /\ raised' = out.raised
    /\ op' = "get_computed_weather_data"
    /\ pc' = "done"
    /\ UNCHANGED <<args, saved, trace>>

\* One call of save_device.
SaveDevice ==
    /\ pc = "idle"
    /\ \E timestamp \in Timestamps, device_dict \in DeviceDicts,
          bq \in BQBehaviours, ds \in DSBehaviours :
         LET out == SaveDeviceCall(timestamp, device_dict, bq, ds) IN
         /\ args' = [timestamp |-> timestamp,
                     name |-> DictGet(device_dict, "name"),
                     data |-> device_dict]
         /\ saved' = out.ret
         /\ raised' = out.raised
         /\ trace' = out.trace
    /\ op' = "save_device"
    /\ pc' = "done"
    /\ UNCHANGED <<rows, returned>>

\* One call of save_raw_five_min.
SaveRawFiveMin ==
    /\ pc = "idle"
    /\ \E timestamp \in Timestamps, name \in Names, data \in Dicts,
          bq \in BQBehaviours :
         LET out == SaveRawCall(timestamp, name, data, bq) IN
         /\ args' = [timestamp |-> timestamp, name |-> name, data |-> data]
         /\ saved' = out.ret
         /\ raised' = out.raised
         /\ trace' = out.trace
    /\ op' = "save_raw_five_min"
    /\ pc' = "done"
    /\ UNCHANGED <<rows, returned>>

\* One call of save_raw_aux.
SaveRawAux ==
    /\ pc = "idle"
    /\ \E timestamp \in Timestamps, name \in Names, data \in Dicts,
          bq \in BQBehaviours :
         LET out == SaveRawCall(timestamp, name, data, bq) IN
         /\ args' = [timestamp |-> timestamp, name |-> name, data |-> data]
         /\ saved' = out.ret
         /\ raised' = out.raised
         /\ trace' = out.trace
    /\ op' = "save_raw_aux"
    /\ pc' = "done"
    /\ UNCHANGED <<rows, returned>>

\* One call of save_computed.
SaveComputed ==
    /\ pc = "idle"
    /\ \E timestamp \in Timestamps, name \in Names, data \in Dicts,
          bq \in BQBehaviours, ds \in DSBehaviours :
         LET out == SaveComputedCall(timestamp, name, data, bq, ds) IN
         /\ args' = [timestamp |-> timestamp, name |-> name, data |-> data]
         /\ saved' = out.ret
         /\ raised' = out.raised
         /\ trace' = out.trace
    /\ op' = "save_computed"
    /\ pc' = "done"
    /\ UNCHANGED <<rows, returned>>

Next ==
    \/ GetComputedWeatherData
    \/ SaveDevice
    \/ SaveRawFiveMin
    \/ SaveRawAux
    \/ SaveComputed

Spec == Init /\ [][Next]_vars

(* ----------------------------- properties ------------------------------ *)
WriteOps == {"save_device", "save_raw_five_min", "save_raw_aux", "save_computed"}

GetDone == pc = "done" /\ op = "get_computed_weather_data"
WriteDone == pc = "done" /\ op \in WriteOps

\* The records of the call, as fetched and decoded.
Fetched == Decoded(rows)
AllHaveTime == \A i \in DOMAIN Fetched : HasTime(Fetched[i])
Times(list) == { list[i]["time"] : i \in DOMAIN list }
CountAt(list, T) == Cardinality({ i \in DOMAIN list : list[i]["time"] = T })

\* Among the fetched records with time T, the earliest in fetch order: the
\* first T-record of the stable descending sort.
FirstFetchedAt(T) ==
    Fetched[CHOOSE i \in DOMAIN Fetched :
                /\ Fetched[i]["time"] = T
                /\ \A j \in DOMAIN Fetched : Fetched[j]["time"] = T => i <= j]

RECURSIVE ForwardPass(_, _, _)
\* One forward pass over list from position i that appends to the fresh
\* sequence out every record whose time differs from the last one kept.
ForwardPass(list, i, out) ==
    IF i > Len(list) THEN out
    ELSE IF out # <<>> /\ out[Len(out)]["time"] = list[i]["time"]
         THEN ForwardPass(list, i + 1, out)
         ELSE ForwardPass(list, i + 1, Append(out, list[i]))

RECURSIVE IsSubseq(_, _)
\* a is b with some elements left out.
IsSubseq(a, b) ==
    IF a = <<>> THEN TRUE
    ELSE IF b = <<>> THEN FALSE
    ELSE IF a[1] = b[1] THEN IsSubseq(Tail(a), Tail(b))
    ELSE IsSubseq(a, Tail(b))

IsDSCall(c) ==
    c.api \in {"datastore.save_dict_to_entity", "datastore.save_with_key"}

\* C1: when every fetched record has a time, the returned series holds
\* exactly one record for each timestamp of the input.
C1_OneRecordPerTime ==
    (GetDone /\ AllHaveTime) =>
        /\ raised = "none"
        /\ \A T \in Times(Fetched) : CountAt(returned, T) = 1

\* C2: the returned series is ordered newest first: a record that comes
\* before another has a time at least as large.
C2_NewestFirst ==
    (GetDone /\ raised = "none") =>
        \A i, j \in DOMAIN returned :
            i < j => returned[i]["time"] >= returned[j]["time"]

\* C2 witness: an unsorted fetch with duplicates was sorted, a record was
\* removed in place, and at least two records came back.
C2_Witness ==
    /\ GetDone /\ raised = "none"
    /\ Len(returned) >= 2 /\ Len(returned) < Len(rows)
    /\ \E i, j \in DOMAIN Fetched :
           i < j /\ HasTime(Fetched[i]) /\ HasTime(Fetched[j])
                 /\ Fetched[i]["time"] < Fetched[j]["time"]

\* C3: for each timestamp T the returned series holds one T-record only,
\* and it is the first T-record of the sorted input, fields unchanged.
C3_OnlyFirstOfEachTimeKept ==
    (GetDone /\ AllHaveTime) =>
        /\ raised = "none"
        /\ \A T \in Times(Fetched) :
             /\ CountAt(returned, T) = 1
             /\ \A i \in DOMAIN returned :
                    returned[i]["time"] = T => returned[i] = FirstFetchedAt(T)

\* C4: when the store returns no payloads, the call returns the empty
\* series and raises nothing.
C4_EmptyIsValid ==
    (GetDone /\ rows = <<>>) => (raised = "none" /\ returned = <<>>)

\* C4 witness: a call whose fetch was empty has returned.
C4_Witness == GetDone /\ rows = <<>> /\ raised = "none"

\* C5: a write called with a missing timestamp, a missing name or an empty
\* payload returns false, raises nothing and calls neither store.
C5_InvalidArgsShortCircuit ==
    (WriteDone /\ (\/ args.timestamp = None
                   \/ args.name = None
                   \/ DictLen(args.data) = 0)) =>
        (saved = FALSE /\ raised = "none" /\ trace = <<>>)

\* C5 witness: save_computed(None, "d1", {"t": 1}) has returned false
\* without a store call.
C5_Witness ==
    /\ pc = "done" /\ op = "save_computed"
    /\ args.timestamp = None /\ args.name # None /\ DictLen(args.data) > 0
    /\ saved = FALSE /\ trace = <<>>

\* C6: no write lets an exception out, and a write during which a store
\* raised returns false.
C6_StoreFaultsNeverPropagate ==
    WriteDone =>
        /\ raised = "none"
        /\ (\E i \in DOMAIN trace : trace[i].outcome = "raise") => saved = FALSE

\* C6 witness: a write whose datastore call raised has returned false.
C6_Witness ==
    /\ WriteDone /\ raised = "none" /\ saved = FALSE
    /\ \E i \in DOMAIN trace : IsDSCall(trace[i]) /\ trace[i].outcome = "raise"

\* C7: when a fetched record lacks a time the call ends in a fault and
\* returns nothing; a returned series never holds a record without time.
C7_MissingTimeFaults ==
    /\ (GetDone /\ ~AllHaveTime) => (raised # "none" /\ returned = <<>>)
    /\ (GetDone /\ raised = "none") =>
           \A i \in DOMAIN returned : HasTime(returned[i])

\* C7 witness: the record without time came last, after two records of one
\* timestamp, and the call faulted.
C7_Witness ==
    /\ GetDone /\ Len(rows) = 3 /\ raised # "none"
    /\ HasTime(Fetched[1]) /\ HasTime(Fetched[2]) /\ ~HasTime(Fetched[3])
    /\ Fetched[1]["time"] = Fetched[2]["time"]

\* C8: the series returned equals the result of one forward pass over the
\* sorted records that builds a fresh sequence and skips each record whose
\* time is that of the last record kept.
C8_SameAsForwardPass ==
    (GetDone /\ AllHaveTime) =>
        /\ raised = "none"
        /\ returned = ForwardPass(SortedDesc(Fetched), 1, <<>>)

\* C9: in save_computed and save_device the datastore write is attempted
\* only as the second call, after an append that reported success, and the
\* call returns true exactly when both writes succeeded.
C9_AppendBeforeCache ==
    (pc = "done" /\ op \in {"save_computed", "save_device"}) =>
        /\ \A i \in DOMAIN trace :
               IsDSCall(trace[i]) =>
                   (i = 2 /\ trace[1] = Call("bigquery.save", "true"))
        /\ saved <=> /\ Len(trace) = 2
                     /\ trace[1] = Call("bigquery.save", "true")
                     /\ IsDSCall(trace[2]) /\ trace[2].outcome = "ok"

\* C9 witness: save_computed returned false after a completed append whose
\* datastore write failed.
C9_Witness ==
    /\ pc = "done" /\ op = "save_computed" /\ saved = FALSE
    /\ trace = << Call("bigquery.save", "true"),
                  Call("datastore.save_dict_to_entity", "raise") >>

\* C10: when every fetched record has a time, the timestamps of the
\* returned series are those of the input, and the series is the sorted
\* input with some records left out.
C10_NoTimeLostNoRecordInvented ==
    (GetDone /\ AllHaveTime) =>
        /\ raised = "none"
        /\ Times(returned) = Times(Fetched)
        /\ IsSubseq(returned, SortedDesc(Fetched))

\* C10 witness: records of two timestamps were fetched and one was removed.
C10_Witness ==
    /\ GetDone /\ AllHaveTime /\ raised = "none"
    /\ Cardinality(Times(Fetched)) >= 2
    /\ Len(returned) < Len(rows)
=============================================================================
